---- MODULE Spec2Model ----
(***************************************************************************)
(* Model of the tender monitor: PCCWebScraper (web_scraper_notitle.py),    *)
(* LineNotifier (line_notifier.py) and MonitoringSystem                    *)
(* (monitor_system.py).                                                    *)
(*                                                                         *)
(* Strings that the program builds by concatenation are modelled as        *)
(* sequences of strings; a message text is a sequence of lines, each line  *)
(* a record [label, value] with value a sequence of strings.               *)
(*                                                                         *)
(* Spec is the monitoring process; SpecNotifier, SpecFormat and SpecParse  *)
(* exercise LineNotifier, format_tender_notification and the parsing loop  *)
(* of search_tenders on their own; SpecSched is the scheduling loop.       *)
(***************************************************************************)
EXTENDS Naturals, Sequences, FiniteSets, TLC

\* ------------------------------------------------------------------ bounds
\* Largest number of <tr> rows in one search response.
MaxRows == 2
\* Largest number of monitoring jobs in one behaviour (the clock's range).
MaxClock == 2
\* Largest number of send_message calls in the notifier's own specification.
MaxCalls == 2

\* Largest list given to send_multiple_tenders_notification in the notifier's
\* own specification.
MaxBatch == MaxRows + 1

\* Last tick of the scheduling process's clock.
MaxTime == 12
\* Sleeps of the scheduling loop in one day.
Day == 3

\* --------------------------------------------------------- program constants
\* len(cells) >= 9
MinCells == 9

None == "None"
DigitTexts == {"1", "2", "3"}

\* what the channel does with one push_message / broadcast call
Outcomes == {"ok", "LineBotApiError", "ConnectionError"}
\* what requests.get + raise_for_status do
FetchStatuses == {"ok", "HTTPError", "ConnectionError"}

VARIABLES
    constructed,     \* MonitoringSystem.__init__ has run
    history_file,    \* data/tender_history.json: [kind, data]
    tender_history,  \* scraper.tender_history: function id -> tender
    last_run,        \* data/last_run.txt: 0 = "Never", else a timestamp
    now,             \* the clock (datetime.now()), one tick per job
    response,        \* the remote response the last job received
    new_tenders,     \* what search_tenders returned in the last job
    calls,           \* the channel calls of the last job, in order
    log,             \* the stages of the last operation, in order
    completed,       \* the last job reached "Monitoring job completed"
    hist_before,     \* tender_history when the last job started
    file_before,     \* history_file when the last job started
    attempted,       \* ids of the listings some send attempt was about
    propagated,      \* an exception left run_monitoring_job
    user_id,         \* LineNotifier.user_id (notifier specification)
    n_calls,         \* channel calls made through send_message
    n_result,        \* result of the last notifier call
    n_batch,         \* <<>>, or <<the list given to
                     \* send_multiple_tenders_notification>>
    f_row,           \* <<>>, or <<the row the tender was parsed from>>
    f_tender,        \* the dict given to format_tender_notification
    f_text,          \* <<>>, or the text format_tender_notification made
    p_rows,          \* the <tr> rows of a results table
    p_acc,           \* the history and the new tenders of the loop over them
    p_out,           \* the dicts _parse_tender_row returned in that loop
    p_done,          \* the rows have been gone through
    s_pc,            \* where the scheduling process is
    s_active,        \* run_monitoring_job calls started and not returned
    s_time,          \* the time, in sleeps of the scheduling loop
    s_next_run       \* when the scheduled job is next due

vars == <<constructed, history_file, tender_history, last_run, now, response,
          new_tenders, calls, log, completed, hist_before, file_before,
          attempted, propagated, user_id, n_calls, n_result, n_batch, f_row, f_tender,
          f_text, p_rows, p_acc, p_out, p_done, s_pc, s_active, s_time,
          s_next_run>>

pipeVars == <<constructed, history_file, tender_history, last_run, now,
              response, new_tenders, calls, log, completed, hist_before,
              file_before, attempted, propagated>>

notifVars == <<user_id, n_calls, n_result, n_batch>>

formatVars == <<f_row, f_tender, f_text>>

\* the variables of the specifications of single functions
parseVars == <<p_rows, p_acc, p_out, p_done>>

schedVars == <<s_pc, s_active, s_time, s_next_run>>

auxVars == <<formatVars, parseVars, schedVars>>

\* ------------------------------------------------------------------ helpers
EmptyMap == [i \in {} |-> None]

Range(s) == {s[i] : i \in 1..Len(s)}

\* sequences over S of length at most n
SeqUpTo(S, n) == UNION {[1..k -> S] : k \in 0..n}

\* dict.get(key, 'N/A')
Get(tender, key) == IF key \in DOMAIN tender THEN tender[key] ELSE "N/A"

\* ------------------------------------------------------------ durable store
\* The file is absent, holds text that json.load cannot decode, or holds a
\* mapping. A corrupt file's data is what a reader that ignored the damage
\* would make of it.
AbsentFile == [kind |-> "absent", data |-> EmptyMap]
JsonFile(mapping) == [kind |-> "json", data |-> mapping]
Residue ==
    [id |-> "A001", title |-> "T1", organization |-> "ORG",
     transmission |-> "01", tender_method |-> "open",
     tender_type |-> "works", announcement_date |-> "113/04/02",
     deadline |-> "113/04/30", budget |-> "1000",
     link |-> <<"https://web.pcc.gov.tw", "/", "tender">>, found_date |-> 0]
CorruptFile == [kind |-> "corrupt", data |-> [k \in {"A001"} |-> Residue]]

\* the ids a reader of the file finds in it
StoreIds(file) == IF file.kind = "json" THEN DOMAIN file.data ELSE {}

\* PCCWebScraper._load_history: {} when the file is absent, {} when json.load
\* raises JSONDecodeError, else the mapping in the file.
LoadHistoryIgnoreDamage(file) == file.data

_load_history(file) ==
    IF file.kind = "absent" THEN EmptyMap
    ELSE IF file.kind = "corrupt" THEN EmptyMap
    ELSE file.data

\* PCCWebScraper._save_history: the file holds the full current mapping.
_save_history(history) == JsonFile(history)

\* -------------------------------------------------------------------- rows
\* A <tr> of the results table: the number of its <td> cells, the stripped
\* text of the first cell, the lines of the third cell's text (tender id,
\* then title) and the href of the third cell's <a> (<<>>: no link); raises
\* says that a step of the extraction raises an exception.
MkRow(n, item, lines) ==
    [ncells |-> n, item |-> item, organization |-> "ORG",
     tender_text |-> lines, transmission |-> "01", tender_method |-> "open",
     tender_type |-> "works", announcement_date |-> "113/04/02",
     deadline |-> "113/04/30", budget |-> "1000", href |-> <<"/", "tender">>,
     raises |-> FALSE]

\* the data rows of the model: two listings, one of them in two versions
Listings == {<<"A001", "T1">>, <<"A001", "T2">>, <<"A002", "T1">>}
DataRows == {MkRow(MinCells, "1", l) : l \in Listings}
HeaderRow == MkRow(MinCells, "No.", <<"A001", "T1">>)
ShortRow == MkRow(MinCells - 1, "1", <<"A001", "T1">>)
Rows == DataRows \cup {HeaderRow, ShortRow}

\* More rows for the specification of the parsing loop: a row whose
\* extraction raises, a row whose third cell is empty and a row whose third
\* cell holds one line.
RaisingRow == [MkRow(MinCells, "2", <<"A003", "T3">>) EXCEPT !.raises = TRUE]
EmptyIdRow == MkRow(MinCells, "3", <<>>)
IdOnlyRow == MkRow(MinCells, "2", <<"A004">>)
\* Rows whose third cell has no <a href>, an href that is an absolute URL
\* and a relative href without a leading slash.
NoLinkRow == [MkRow(MinCells, "1", <<"A005", "T5">>) EXCEPT !.href = <<>>]
AbsoluteLinkRow ==
    [MkRow(MinCells, "1", <<"A006", "T6">>)
        EXCEPT !.href = <<"https://other.example", "/", "tender">>]
BareLinkRow ==
    [MkRow(MinCells, "1", <<"A007", "T7">>) EXCEPT !.href = <<"tender">>]
LinkRows == {NoLinkRow, AbsoluteLinkRow, BareLinkRow}
ParseRows == Rows \cup {RaisingRow, EmptyIdRow, IdOnlyRow} \cup LinkRows

\* re.match(r'^\d+$', item_number)
MatchesDigits(text) == text \in DigitTexts

\* search_tenders lines 151-161: the rows kept as data rows
IsDataRow(row) == row.ncells >= MinCells /\ MatchesDigits(row.item)

\* tender_text.split('\n', 1)
Split1(lines) ==
    IF Len(lines) = 0 THEN <<"">>
    ELSE IF Len(lines) = 1 THEN <<lines[1]>>
    ELSE <<lines[1], lines[2]>>

\* lines 237-245
Link(href) ==
    IF href = <<>> THEN <<>>
    ELSE IF href[1] = "/" THEN <<"https://web.pcc.gov.tw">> \o href
    ELSE <<"https://web.pcc.gov.tw", "/">> \o href

\* PCCWebScraper._parse_tender_row: <<>> for None (too few cells, or the
\* exception caught at lines 260-262), else <<the tender dict>>
_parse_tender_row(row, clock) ==
    IF row.ncells < MinCells THEN <<>>
    ELSE IF row.raises THEN <<>>
    ELSE LET tender_parts == Split1(row.tender_text)
         IN <<[id |-> tender_parts[1],
             title |-> IF Len(tender_parts) > 1 THEN tender_parts[2]
                       ELSE "Unknown Title",
             organization |-> row.organization,
             transmission |-> row.transmission,
             tender_method |-> row.tender_method,
             tender_type |-> row.tender_type,
             announcement_date |-> row.announcement_date,
             deadline |-> row.deadline,
             budget |-> row.budget,
             link |-> Link(row.href),
             found_date |-> clock]>>

\* ------------------------------------------------------------ search_tenders
\* One pass of the loop of lines 170-176 over the data rows, carrying the
\* history and the list of new tenders.
ClassifyOneOverwrite(acc, tender) ==
    [history |-> [k \in DOMAIN acc.history \cup {tender.id} |->
                    IF k = tender.id THEN tender ELSE acc.history[k]],
     new |-> IF tender.id \notin DOMAIN acc.history
             THEN Append(acc.new, tender) ELSE acc.new]

ClassifyOneNoInsert(acc, tender) ==
    [history |-> acc.history,
     new |-> IF tender.id \notin DOMAIN acc.history
             THEN Append(acc.new, tender) ELSE acc.new]

ClassifyOne(acc, tender) ==
    IF tender.id \notin DOMAIN acc.history
    THEN [history |-> [k \in DOMAIN acc.history \cup {tender.id} |->
                         IF k = tender.id THEN tender ELSE acc.history[k]],
          new |-> Append(acc.new, tender)]
    ELSE acc

RECURSIVE Classify(_, _, _)
Classify(rows, clock, acc) ==
    IF rows = <<>> THEN acc
    ELSE LET tender == _parse_tender_row(Head(rows), clock)
         IN Classify(Tail(rows), clock,
                     IF tender # <<>> THEN ClassifyOne(acc, tender[1])
                     ELSE acc)

\* Lines 169-172: the dicts _parse_tender_row returns for the data rows, in
\* order; a row it returns None for is passed over.
RECURSIVE ParseAllStopAtNone(_, _)
ParseAllStopAtNone(rows, clock) ==
    IF rows = <<>> THEN <<>>
    ELSE IF _parse_tender_row(Head(rows), clock) = <<>> THEN <<>>
    ELSE _parse_tender_row(Head(rows), clock)
         \o ParseAllStopAtNone(Tail(rows), clock)

RECURSIVE ParseAll(_, _)
ParseAll(rows, clock) ==
    IF rows = <<>> THEN <<>>
    ELSE _parse_tender_row(Head(rows), clock) \o ParseAll(Tail(rows), clock)

\* A remote response: the fetch status, whether the page holds table.tb_01
\* and the table's rows.
FailedResponses == {[status |-> s, table |-> FALSE, rows |-> <<>>] :
                      s \in FetchStatuses \ {"ok"}}
Pages == {[status |-> "ok", table |-> FALSE, rows |-> <<>>]}
         \cup {[status |-> "ok", table |-> TRUE, rows |-> r] :
                 r \in SeqUpTo(Rows, MaxRows)}
Responses == FailedResponses \cup Pages

data_rows(resp) == SelectSeq(resp.rows, IsDataRow)

\* PCCWebScraper.search_tenders: the returned list, the history and the file
\* afterwards, and the stages gone through.
SearchResult(ret, history, file, stages) ==
    [ret |-> ret, history |-> history, file |-> file, log |-> stages]

\* lines 184-186: the RequestException of requests.get or raise_for_status
\* is caught, [] is returned and nothing else is done.
FetchFailedSaves(history, file) ==
    SearchResult(<<>>, history, _save_history(history),
                 <<"FETCH", "PERSIST_STATE">>)

FetchFailed(history, file) ==
    SearchResult(<<>>, history, file, <<"FETCH">>)

\* lines 142-144 and 163-165: no results table, or no data row: [] is
\* returned before the history is saved.
NoResults(history, file) ==
    SearchResult(<<>>, history, file, <<"FETCH", "PARSE">>)

\* lines 169-182: the n data rows classified into c, then the history saved
\* once and the new tenders returned.
ClassifiedNoSave(c, file, n) ==
    SearchResult(c.new, c.history, file,
                 <<"FETCH", "PARSE">> \o [i \in 1..n |-> "CLASSIFY"])

ClassifiedSavePerRecord(c, file, n) ==
    SearchResult(c.new, c.history, _save_history(c.history),
                 <<"FETCH", "PARSE">>
                 \o [i \in 1..(2 * n) |->
                       IF i % 2 = 1 THEN "CLASSIFY" ELSE "PERSIST_STATE"])

Classified(c, file, n) ==
    SearchResult(c.new, c.history, _save_history(c.history),
                 <<"FETCH", "PARSE">> \o [i \in 1..n |-> "CLASSIFY"]
                 \o <<"PERSIST_STATE">>)

search_tenders(history, file, resp, clock) ==
    IF resp.status # "ok" THEN FetchFailed(history, file)
    ELSE IF ~resp.table THEN NoResults(history, file)
    ELSE IF data_rows(resp) = <<>> THEN NoResults(history, file)
    ELSE Classified(Classify(data_rows(resp), clock,
                             [history |-> history, new |-> <<>>]),
                    file, Len(data_rows(resp)))

\* ----------------------------------------------------------------- notifier
Text(s) == <<s>>

FormatLinkAlways(tender) ==
    << [label |-> "header", value |-> <<>>],
       [label |-> "tender id", value |-> Text(Get(tender, "id"))],
       [label |-> "tender title", value |-> Text(Get(tender, "title"))],
       [label |-> "organization", value |-> Text(Get(tender, "organization"))],
       [label |-> "announcement date", value |-> Text(Get(tender, "date"))],
       [label |-> "details",
        value |-> IF "link" \in DOMAIN tender /\ tender.link # <<>>
                  THEN tender.link ELSE <<"N/A">>],
       [label |-> "footer", value |-> <<>>] >>

\* LineNotifier.format_tender_notification
format_tender_notification(tender) ==
    << [label |-> "header", value |-> <<>>],
       [label |-> "tender id", value |-> Text(Get(tender, "id"))],
       [label |-> "tender title", value |-> Text(Get(tender, "title"))],
       [label |-> "organization", value |-> Text(Get(tender, "organization"))],
       [label |-> "announcement date", value |-> Text(Get(tender, "date"))] >>
    \o (IF "link" \in DOMAIN tender /\ tender.link # <<>>
        THEN << [label |-> "details", value |-> tender.link] >>
        ELSE <<>>)
    \o << [label |-> "footer", value |-> <<>>] >>

\* lines 121-127: the summary text of a batch
summary_message(tenders) ==
    << [label |-> "summary header", value |-> <<>>],
       [label |-> "list header", value |-> <<>>] >>
    \o [i \in 1..Len(tenders) |->
          [label |-> "item", index |-> i,
           value |-> Text(Get(tenders[i], "title"))]]
    \o << [label |-> "summary footer", value |-> <<>>] >>

\* LineNotifier.send_message: the channel call made and its result, "True",
\* "False" or "raise" (the exception leaves send_message).
SendResult(outcome) ==
    IF outcome = "ok" THEN "True"
    ELSE IF outcome = "LineBotApiError" THEN "False"
    ELSE "raise"

send_message(uid, message, about, outcome) ==
    [api |-> IF uid # None THEN "push_message" ELSE "broadcast",
     to |-> uid, text |-> message, about |-> about,
     outcome |-> outcome, result |-> SendResult(outcome)]

\* LineNotifier.send_tender_notification
send_tender_notification(uid, tender, outcome) ==
    send_message(uid, format_tender_notification(tender), {tender.id},
                 outcome)

\* The loop of lines 133-134: one detail message per tender, until a send
\* raises.
RECURSIVE DetailSends(_, _, _, _)
DetailSends(uid, tenders, outcomes, done) ==
    IF tenders = <<>> THEN done
    ELSE LET c == send_tender_notification(uid, Head(tenders), Head(outcomes))
         IN IF c.result = "raise" THEN Append(done, c)
            ELSE DetailSends(uid, Tail(tenders), Tail(outcomes),
                             Append(done, c))

\* The number of channel outcomes a batch can consume.
NSends(tenders) ==
    IF Len(tenders) = 0 THEN 0
    ELSE IF Len(tenders) = 1 THEN 1
    ELSE Len(tenders) + 1

SendMultipleOnlyFirst(uid, tenders, outcomes) ==
    IF Len(tenders) = 0 THEN [calls |-> <<>>, result |-> "True"]
    ELSE LET c == send_tender_notification(uid, tenders[1], outcomes[1])
         IN [calls |-> <<c>>, result |-> c.result]

SendMultipleSummaryForOne(uid, tenders, outcomes) ==
    IF Len(tenders) = 0 THEN [calls |-> <<>>, result |-> "True"]
    ELSE LET s == send_message(uid, summary_message(tenders),
                               {tenders[i].id : i \in 1..Len(tenders)},
                               outcomes[1])
         IN [calls |-> <<s>>, result |-> s.result]

\* LineNotifier.send_multiple_tenders_notification: the calls made, in
\* order, and the result ("raise": an exception left the method).
send_multiple_tenders_notification(uid, tenders, outcomes) ==
    IF Len(tenders) = 0 THEN [calls |-> <<>>, result |-> "True"]
    ELSE IF Len(tenders) = 1
    THEN LET c == send_tender_notification(uid, tenders[1], outcomes[1])
         IN [calls |-> <<c>>, result |-> c.result]
    ELSE LET s == send_message(uid, summary_message(tenders),
                               {tenders[i].id : i \in 1..Len(tenders)},
                               outcomes[1])
         IN IF s.result = "raise" THEN [calls |-> <<s>>, result |-> "raise"]
            ELSE LET d == DetailSends(uid, tenders, Tail(outcomes), <<s>>)
                 IN [calls |-> d,
                     result |-> IF d[Len(d)].result = "raise" THEN "raise"
                                ELSE s.result]

\* --------------------------------------------------------- MonitoringSystem
NoResponse == [status |-> "none", table |-> FALSE, rows |-> <<>>]

\* the ids the calls of one job were about
About(cs) == UNION {cs[i].about : i \in 1..Len(cs)}

InitPipeline(files) ==
    /\ constructed = FALSE
    /\ history_file \in files
    /\ tender_history = EmptyMap
    /\ last_run = 0
    /\ now = 0
    /\ response = NoResponse
    /\ new_tenders = <<>>
    /\ calls = <<>>
    /\ log = <<>>
    /\ completed = FALSE
    /\ hist_before = EmptyMap
    /\ file_before = history_file
    /\ attempted = {}
    /\ propagated = FALSE

\* Nothing has been formatted.
FormatIdle ==
    /\ f_row = <<>>
    /\ f_tender = EmptyMap
    /\ f_text = <<>>

\* No table has been gone through.
ParseIdle ==
    /\ p_rows = <<>>
    /\ p_acc = [history |-> EmptyMap, new |-> <<>>]
    /\ p_out = <<>>
    /\ p_done = FALSE

\* The scheduling process has not started.
SchedIdle ==
    /\ s_pc = "main"
    /\ s_active = 0
    /\ s_time = 0
    /\ s_next_run = 0

AuxIdle == FormatIdle /\ ParseIdle /\ SchedIdle

\* Before MonitoringSystem is constructed; the store file is absent, damaged
\* or empty.
Init ==
    /\ InitPipeline({AbsentFile, CorruptFile, JsonFile(EmptyMap)})
    /\ user_id = None
    /\ n_calls = <<>>
    /\ n_result = None
    /\ n_batch = <<>>
    /\ AuxIdle

\* MonitoringSystem.__init__: PCCWebScraper.__init__ loads the history,
\* LineNotifier(channel_access_token) broadcasts (user_id=None).
Construct ==
    /\ ~constructed
    /\ constructed' = TRUE
    /\ tender_history' = _load_history(history_file)
    /\ log' = <<"LOAD_STATE">>
    /\ response' = NoResponse
    /\ new_tenders' = <<>>
    /\ calls' = <<>>
    /\ completed' = FALSE
    /\ hist_before' = tender_history'
    /\ file_before' = history_file
    /\ UNCHANGED <<history_file, last_run, now, attempted, propagated,
                   notifVars, auxVars>>

\* Lines 81 and 102-103: whether an exception raised inside the try block of
\* run_monitoring_job leaves the method. `except Exception` catches it.
PropagatesUncaught(raised) == raised

Propagates(raised) == FALSE

\* MonitoringSystem.run_monitoring_job, the whole job: search_tenders, the
\* notification when the list is not empty, _update_last_run; an exception
\* (a send that raises) is caught and logged, and the job ends there.
\* resp is the remote response; outcomes, chosen by the environment, is what
\* the channel does with each send the job makes.
RunMonitoringJob(resp) ==
    /\ constructed
    /\ now < MaxClock
    /\ \E s \in {search_tenders(tender_history, history_file, resp, now + 1)} :
       \E outcomes \in [1..NSends(s.ret) -> Outcomes] :
       \E n \in {send_multiple_tenders_notification(user_id, s.ret, outcomes)} :
       \E raised \in {s.ret # <<>> /\ n.result = "raise"} :
          /\ now' = now + 1
          /\ response' = resp
          /\ hist_before' = tender_history
          /\ file_before' = history_file
          /\ tender_history' = s.history
          /\ history_file' = s.file
          /\ new_tenders' = s.ret
          /\ calls' = IF s.ret # <<>> THEN n.calls ELSE <<>>
          /\ attempted' = attempted \cup About(calls')
          /\ completed' = ~raised
          /\ propagated' = Propagates(raised)
          /\ last_run' = IF raised THEN last_run ELSE now + 1
          /\ log' = s.log
                    \o [i \in 1..Len(calls') |-> "NOTIFY"]
                    \o (IF raised THEN <<>> ELSE <<"DONE">>)
    /\ UNCHANGED <<constructed, notifVars, auxVars>>

\* The process ends (run_forever returns, main returns): the objects are
\* gone, the files stay.
Exit ==
    /\ constructed
    /\ constructed' = FALSE
    /\ tender_history' = EmptyMap
    /\ hist_before' = EmptyMap
    /\ file_before' = history_file
    /\ log' = <<>>
    /\ response' = NoResponse
    /\ new_tenders' = <<>>
    /\ calls' = <<>>
    /\ completed' = FALSE
    /\ UNCHANGED <<history_file, last_run, now, attempted, propagated,
                   notifVars, auxVars>>

Job == \E resp \in Responses : RunMonitoringJob(resp)

Next == Construct \/ Job \/ Exit

Spec == Init /\ [][Next]_vars

\* ------------------------------------------------- LineNotifier on its own
\* The tenders the parser makes of the model's data rows.
ParsedTenders == {_parse_tender_row(r, 1)[1] : r \in DataRows}

\* LineNotifier.__init__(channel_access_token, user_id=None): either mode.
InitNotifier ==
    /\ InitPipeline({AbsentFile})
    /\ user_id \in {None, "U1"}
    /\ n_calls = <<>>
    /\ n_result = None
    /\ n_batch = <<>>
    /\ AuxIdle

\* One call of LineNotifier.send_message.
SendMessage(message, outcome) ==
    /\ Len(n_calls) < MaxCalls
    /\ n_batch = <<>>
    /\ \E c \in {send_message(user_id, message, {}, outcome)} :
          /\ n_calls' = Append(n_calls, c)
          /\ n_result' = c.result
    /\ UNCHANGED <<user_id, n_batch, pipeVars, auxVars>>

\* One call of LineNotifier.send_multiple_tenders_notification on a notifier
\* that has sent nothing yet; outcomes is what the channel does with each
\* send.
SendMultiple(tenders, outcomes) ==
    /\ n_calls = <<>>
    /\ n_batch = <<>>
    /\ \E r \in {send_multiple_tenders_notification(user_id, tenders,
                                                     outcomes)} :
          /\ n_calls' = r.calls
          /\ n_result' = r.result
    /\ n_batch' = <<tenders>>
    /\ UNCHANGED <<user_id, pipeVars, auxVars>>

NextNotifier ==
    \/ \E t \in ParsedTenders : \E outcome \in Outcomes :
          SendMessage(format_tender_notification(t), outcome)
    \/ \E tenders \in SeqUpTo(ParsedTenders, MaxBatch) :
       \E outcomes \in [1..NSends(tenders) -> Outcomes] :
          SendMultiple(tenders, outcomes)

SpecNotifier == InitNotifier /\ [][NextNotifier]_vars

\* ------------------------------------- format_tender_notification on its own
\* The keys a tender dict may hold that a notification could show, and a
\* value for each.
ShownKeys == {"id", "title", "organization", "date", "link", "deadline",
              "budget"}
TenderKeys == ShownKeys \cup {"announcement_date"}
SampleValue(key) ==
    CASE key = "id" -> "A001"
      [] key = "title" -> "T1"
      [] key = "organization" -> "ORG"
      [] key = "date" -> "113/04/01"
      [] key = "announcement_date" -> "113/04/02"
      [] key = "deadline" -> "113/04/30"
      [] key = "budget" -> "1000"

\* A dict whose keys are absent, hold the empty string or hold a value, as
\* opt says.
MkTender(opt) ==
    [key \in {k \in TenderKeys : opt[k] # "absent"} |->
        IF key = "link"
        THEN (IF opt[key] = "empty" THEN <<>>
              ELSE <<"https://web.pcc.gov.tw", "/", "tender">>)
        ELSE IF opt[key] = "empty" THEN "" ELSE SampleValue(key)]
TenderDicts == {MkTender(opt) : opt \in [TenderKeys -> {"absent", "empty",
                                                       "value"}]}

\* no channel, no pipeline
NoNotifier ==
    /\ user_id = None
    /\ n_calls = <<>>
    /\ n_result = None
    /\ n_batch = <<>>

InitFormat ==
    /\ InitPipeline({AbsentFile})
    /\ NoNotifier
    /\ f_row = <<>>
    /\ f_tender \in TenderDicts
    /\ f_text = <<>>
    /\ ParseIdle
    /\ SchedIdle

\* _parse_tender_row makes the dict of a row.
ParseRow(row) ==
    /\ f_row = <<>>
    /\ f_text = <<>>
    /\ _parse_tender_row(row, 1) # <<>>
    /\ f_row' = <<row>>
    /\ f_tender' = _parse_tender_row(row, 1)[1]
    /\ UNCHANGED <<f_text, pipeVars, notifVars, parseVars, schedVars>>

\* format_tender_notification makes the text of the dict.
FormatTender ==
    /\ f_text = <<>>
    /\ f_text' = format_tender_notification(f_tender)
    /\ UNCHANGED <<f_row, f_tender, pipeVars, notifVars, parseVars,
                   schedVars>>

NextFormat == (\E row \in Rows : ParseRow(row)) \/ FormatTender

SpecFormat == InitFormat /\ [][NextFormat]_vars

\* --------------------------------------------- the parsing loop on its own
\* The rows of a results table, and a history that is empty or holds one
\* record.
InitParse ==
    /\ InitPipeline({AbsentFile})
    /\ NoNotifier
    /\ FormatIdle
    /\ p_rows \in SeqUpTo(ParseRows, MaxRows)
    /\ p_acc \in {[history |-> h, new |-> <<>>] :
                    h \in {EmptyMap, [k \in {"A001"} |-> Residue]}}
    /\ p_out = <<>>
    /\ p_done = FALSE
    /\ SchedIdle

\* search_tenders lines 147-176: the data rows are selected, each is given
\* to _parse_tender_row and each dict returned is classified.
ParseTable ==
    /\ ~p_done
    /\ p_done' = TRUE
    /\ p_out' = ParseAll(data_rows([rows |-> p_rows]), 1)
    /\ p_acc' = Classify(data_rows([rows |-> p_rows]), 1, p_acc)
    /\ UNCHANGED <<p_rows, pipeVars, notifVars, formatVars, schedVars>>

NextParse == ParseTable

SpecParse == InitParse /\ [][NextParse]_vars

\* ------------------------------------------------- the scheduling process
\* main: setup_schedule, then run_forever. Time is counted in sleeps of the
\* loop of run_forever; the job is due once a day.
\* Where control is after run_monitoring_job is called: in the job, until it
\* returns (a plain call, lines 118 and 128).
AfterCallDetached(inJob, past) == past

AfterCall(inJob, past) == inJob

\* schedule's next run of a daily job that was due at `due` and ran at `t`
NextDue(due, t) == due + Day * (((t - due) \div Day) + 1)

InitSched ==
    /\ InitPipeline({AbsentFile})
    /\ NoNotifier
    /\ FormatIdle
    /\ ParseIdle
    /\ SchedIdle

\* setup_schedule: the job is registered for run_time, some time within the
\* coming day, and run_monitoring_job is called at once.
SetupSchedule ==
    /\ s_pc = "main"
    /\ s_next_run' \in 1..Day
    /\ s_active' = s_active + 1
    /\ s_pc' = AfterCall("initial_job", "loop")
    /\ UNCHANGED <<s_time, pipeVars, notifVars, formatVars, parseVars>>

\* Time passes while a job runs.
JobTakesTime ==
    /\ s_active > 0
    /\ s_time < MaxTime
    /\ s_time' = s_time + 1
    /\ UNCHANGED <<s_pc, s_active, s_next_run, pipeVars, notifVars,
                   formatVars, parseVars>>

\* run_monitoring_job returns to setup_schedule, and main goes on to
\* run_forever.
InitialJobReturns ==
    /\ s_pc = "initial_job"
    /\ s_active' = s_active - 1
    /\ s_pc' = "loop"
    /\ UNCHANGED <<s_time, s_next_run, pipeVars, notifVars, formatVars,
                   parseVars>>

\* schedule.run_pending(): the job, when due, is called.
RunPending ==
    /\ s_pc = "loop"
    /\ IF s_time >= s_next_run
       THEN /\ s_active' = s_active + 1
            /\ s_pc' = AfterCall("scheduled_job", "sleep")
       ELSE /\ s_active' = s_active
            /\ s_pc' = "sleep"
    /\ UNCHANGED <<s_time, s_next_run, pipeVars, notifVars, formatVars,
                   parseVars>>

\* run_monitoring_job returns to run_pending, which schedules the next run.
ScheduledJobReturns ==
    /\ s_pc = "scheduled_job"
    /\ s_active' = s_active - 1
    /\ s_next_run' = NextDue(s_next_run, s_time)
    /\ s_pc' = "sleep"
    /\ UNCHANGED <<s_time, pipeVars, notifVars, formatVars, parseVars>>

\* time.sleep(60)
Sleep ==
    /\ s_pc = "sleep"
    /\ s_time < MaxTime
    /\ s_time' = s_time + 1
    /\ s_pc' = "loop"
    /\ UNCHANGED <<s_active, s_next_run, pipeVars, notifVars, formatVars,
                   parseVars>>

NextSched ==
    \/ SetupSchedule
    \/ JobTakesTime
    \/ InitialJobReturns
    \/ RunPending
    \/ ScheduledJobReturns
    \/ Sleep

SpecSched == InitSched /\ [][NextSched]_vars

\* ------------------------------------------------------------------- claims
\* The last step was a monitoring job / its fetch succeeded.
JobRan == response.status # "none"
FetchOk == response.status = "ok"

\* The records the last job parsed, in row order.
Parsed ==
    [i \in 1..Len(data_rows(response)) |->
        _parse_tender_row(data_rows(response)[i], now)[1]]
ParsedIds == {Parsed[i].id : i \in 1..Len(Parsed)}

Count(seq, x) == Cardinality({i \in 1..Len(seq) : seq[i] = x})

\* a tender without its found_date
Fields(t) == [k \in DOMAIN t \ {"found_date"} |-> t[k]]

\* C1: when a job that completed is followed by a job that receives the same
\* remote response, the second job finds no new record, makes no send and
\* leaves the history, in memory and in the file, as it was.
C1_Idempotent ==
    [][(constructed /\ completed /\ now' = now + 1 /\ response' = response)
         => /\ new_tenders' = <<>>
            /\ calls' = <<>>
            /\ tender_history' = tender_history
            /\ history_file' = history_file]_vars

\* A second job over rows whose records the first job stored: nothing new,
\* nothing sent, the history as the first job left it.
C1_Witness ==
    /\ now = 2
    /\ completed
    /\ Len(Parsed) = 2
    /\ DOMAIN hist_before = ParsedIds
    /\ \A i \in 1..Len(Parsed) :
          /\ hist_before[Parsed[i].id].found_date = 1
          /\ Fields(hist_before[Parsed[i].id]) = Fields(Parsed[i])
    /\ new_tenders = <<>>
    /\ calls = <<>>
    /\ tender_history = hist_before

\* Row i of the last job carries an id that was neither in the history when
\* the job started nor on an earlier row of the batch.
FirstUnseen(i) ==
    /\ Parsed[i].id \notin DOMAIN hist_before
    /\ \A j \in 1..(i - 1) : Parsed[j].id # Parsed[i].id
NewIdx == {i \in 1..Len(Parsed) : FirstUnseen(i)}

\* C2: the new tenders of a job are exactly the parsed records, in row order,
\* whose id was absent from the history when the record was classified: an id
\* already stored is never reported, an id on several rows is reported once,
\* at its first row.
C2_NewIffAbsent ==
    JobRan =>
        /\ Len(new_tenders) = Cardinality(NewIdx)
        /\ \A i \in NewIdx :
              new_tenders[Cardinality({j \in NewIdx : j <= i})] = Parsed[i]

\* Two rows with one unseen id, reported once; and a stored id not reported.
C2_Witness ==
    /\ Len(Parsed) = 2
    /\ Parsed[1].id = Parsed[2].id
    /\ Parsed[1].title # Parsed[2].title
    /\ Parsed[1].id \notin DOMAIN hist_before
    /\ new_tenders = <<Parsed[1]>>

\* C3: a job whose fetch fails gets [] from search_tenders, goes through no
\* other stage, sends nothing, ends normally and leaves the history in memory
\* and the history file as they were.
C3_FetchFailureUntouched ==
    (JobRan /\ ~FetchOk) =>
        /\ new_tenders = <<>>
        /\ calls = <<>>
        /\ log = <<"FETCH", "DONE">>
        /\ completed
        /\ tender_history = hist_before
        /\ history_file = file_before

\* A failed fetch in a job that started with a record in the history.
C3_Witness ==
    /\ response.status = "HTTPError"
    /\ DOMAIN hist_before # {}
    /\ history_file.kind = "json"
    /\ tender_history = hist_before

\* the place of a stage in the order the design document gives
SpecRank(stage) ==
    CASE stage = "LOAD_STATE" -> 0
      [] stage = "FETCH" -> 1
      [] stage = "PARSE" -> 2
      [] stage = "CLASSIFY" -> 3
      [] stage = "NOTIFY" -> 4
      [] stage = "PERSIST_STATE" -> 5
      [] stage = "DONE" -> 6

\* the place of a stage in the order the code follows
CodeRank(stage) ==
    CASE stage = "LOAD_STATE" -> 0
      [] stage = "FETCH" -> 1
      [] stage = "PARSE" -> 2
      [] stage = "CLASSIFY" -> 3
      [] stage = "PERSIST_STATE" -> 4
      [] stage = "NOTIFY" -> 5
      [] stage = "DONE" -> 6

C5_StoredWereAttempted ==
    StoreIds(history_file) \subseteq attempted

\* Two new listings stored, and the only send of the job, the summary,
\* raised: the detail messages were never sent.
C5_Witness ==
    /\ Len(new_tenders) = 2
    /\ Len(calls) = 1
    /\ calls[1].result = "raise"
    /\ ~completed
    /\ StoreIds(history_file) = {new_tenders[1].id, new_tenders[2].id}

\* no CLASSIFY stage follows a PERSIST_STATE stage
SavedAfterClassify ==
    \A i, j \in 1..Len(log) :
        (log[i] = "PERSIST_STATE" /\ log[j] = "CLASSIFY") => j < i

CorruptLoadsEmpty ==
    (log = <<"LOAD_STATE">> /\ history_file.kind = "corrupt")
        => tender_history = EmptyMap

C8_IdsAreUnion ==
    JobRan =>
        /\ DOMAIN hist_before \subseteq DOMAIN tender_history
        /\ StoreIds(file_before) \subseteq StoreIds(history_file)
        /\ FetchOk =>
              /\ DOMAIN tender_history = DOMAIN hist_before \cup ParsedIds
              /\ StoreIds(history_file) = StoreIds(file_before) \cup ParsedIds

\* A job over a stored id and an unseen one.
C8_Witness ==
    /\ FetchOk
    /\ DOMAIN hist_before = {"A001"}
    /\ ParsedIds = {"A001", "A002"}
    /\ DOMAIN tender_history = {"A001", "A002"}

\* C9: a record once stored under an id stays as it is, in memory through
\* every job and in the file through every step; a record whose id is stored
\* is not reported new and no send is about it, whatever its other fields.
C9_FirstSeenKept ==
    [][/\ \A id \in StoreIds(history_file) :
             /\ id \in StoreIds(history_file')
             /\ history_file'.data[id] = history_file.data[id]
       /\ (constructed /\ constructed') =>
             /\ \A id \in DOMAIN tender_history :
                   /\ id \in DOMAIN tender_history'
                   /\ tender_history'[id] = tender_history[id]
             /\ \A i \in 1..Len(new_tenders') :
                   new_tenders'[i].id \notin DOMAIN tender_history
             /\ About(calls') \cap DOMAIN tender_history = {}]_vars

\* A job that parsed a stored id under another title: the stored record is
\* the one of the first job, nothing is new, nothing is sent.
C9_Witness ==
    /\ JobRan
    /\ Len(Parsed) = 1
    /\ Parsed[1].id \in DOMAIN hist_before
    /\ Parsed[1].title # hist_before[Parsed[1].id].title
    /\ tender_history[Parsed[1].id].found_date = 1
    /\ now = 2
    /\ new_tenders = <<>>
    /\ calls = <<>>

\* C10: send_message never raises: whatever the channel does with the push
\* or the broadcast, the result is True or False, False on every error and
\* True only when the call went through.
C10_SendNeverRaises ==
    \A i \in 1..Len(n_calls) :
        /\ n_calls[i].result \in {"True", "False"}
        /\ n_calls[i].result = "True" <=> n_calls[i].outcome = "ok"

\* The list of the last send_multiple_tenders_notification call.
Batch == n_batch[1]
BatchOf(n) == n_batch # <<>> /\ Len(Batch) = n
BigBatch == n_batch # <<>> /\ Len(Batch) >= 2

\* C11: a list of n >= 2 tenders makes exactly n + 1 send attempts, the
\* summary first and then one detail message per tender in list order,
\* whatever the channel does with each send.
C11_SummaryThenEveryDetail ==
    BigBatch =>
        /\ Len(n_calls) = Len(Batch) + 1
        /\ n_calls[1].text = summary_message(Batch)
        /\ \A i \in 1..Len(Batch) :
              /\ i + 1 <= Len(n_calls)
              /\ n_calls[i + 1].text = format_tender_notification(Batch[i])

\* C12: for a list of n >= 2 tenders the result is that of the summary send
\* alone: True when the summary went through, whatever happens to the detail
\* sends, and False when it did not.
C12_ResultIsSummaryResult ==
    BigBatch =>
        /\ n_calls[1].outcome = "ok" => n_result = "True"
        /\ n_calls[1].outcome # "ok" => n_result = "False"

\* C13: an empty list makes no send and gives True; a list of one tender
\* makes exactly one send, of that tender's single-record text, and no
\* summary.
C13_EmptyAndSingle ==
    /\ BatchOf(0) => (n_calls = <<>> /\ n_result = "True")
    /\ BatchOf(1) =>
          /\ Len(n_calls) = 1
          /\ n_calls[1].text = format_tender_notification(Batch[1])
          /\ n_calls[1].text # summary_message(Batch)
          /\ n_calls[1].about = {Batch[1].id}
          /\ n_result = n_calls[1].result

\* A list of one tender pushed to a user: one call, the tender's text.
C13_Witness ==
    /\ BatchOf(1)
    /\ user_id = "U1"
    /\ Len(n_calls) = 1
    /\ n_calls[1].api = "push_message"
    /\ n_calls[1].text = format_tender_notification(Batch[1])
    /\ n_result = "False"

\* The label of the line that shows a key.
LabelOf(key) ==
    CASE key = "id" -> "tender id"
      [] key = "title" -> "tender title"
      [] key = "organization" -> "organization"
      [] key = "date" -> "announcement date"
      [] key = "announcement_date" -> "announcement date"
      [] key = "link" -> "details"
      [] key = "deadline" -> "deadline"
      [] key = "budget" -> "budget"

\* the lines of the formatted text that carry the label
LinesOf(label) == {i \in 1..Len(f_text) : f_text[i].label = label}
Formatted == f_text # <<>>
Placeholder == <<"N/A">>

\* The dict holds no value under the key: the key is absent or its value is
\* empty.
Missing(key) ==
    \/ key \notin DOMAIN f_tender
    \/ (key = "link" /\ f_tender[key] = <<>>)
    \/ (key # "link" /\ f_tender[key] = "")

\* C14 as the claim states it: in the formatted text every field, the link,
\* the deadline and the budget included, has its line, and the line of a
\* missing field shows the placeholder: none is blank, none is left out.
C14_MissingShownAsPlaceholder ==
    Formatted =>
        \A key \in ShownKeys :
            /\ Cardinality(LinesOf(LabelOf(key))) = 1
            /\ Missing(key) =>
                  \A i \in LinesOf(LabelOf(key)) : f_text[i].value = Placeholder

\* C14, amended: the text has one line each for id, title, organization and
\* date, showing the dict's value under that key, which may be blank, or the
\* placeholder when the key is absent; it has a link line exactly when the
\* dict holds a non-empty link; it never has a deadline or a budget line.
C14_PlaceholderForAbsentKeyOnly ==
    Formatted =>
        /\ \A key \in {"id", "title", "organization", "date"} :
              /\ Cardinality(LinesOf(LabelOf(key))) = 1
              /\ \A i \in LinesOf(LabelOf(key)) :
                    f_text[i].value = IF key \in DOMAIN f_tender
                                      THEN <<f_tender[key]>>
                                      ELSE Placeholder
        /\ Missing("link") => LinesOf("details") = {}
        /\ ~Missing("link") =>
              /\ Cardinality(LinesOf("details")) = 1
              /\ \A i \in LinesOf("details") : f_text[i].value = f_tender.link
        /\ LinesOf("deadline") = {}
        /\ LinesOf("budget") = {}
        /\ Len(f_text) = IF Missing("link") THEN 6 ELSE 7

\* A dict without title and link, with an empty organization and a budget:
\* the title line shows the placeholder, the organization line is blank and
\* there is neither a link line nor a budget line.
C14_Witness ==
    /\ Formatted
    /\ f_row = <<>>
    /\ "title" \notin DOMAIN f_tender
    /\ "link" \notin DOMAIN f_tender
    /\ "budget" \in DOMAIN f_tender /\ f_tender.budget # ""
    /\ "organization" \in DOMAIN f_tender /\ f_tender.organization = ""
    /\ \E i \in LinesOf("tender title") : f_text[i].value = Placeholder
    /\ \E i \in LinesOf("organization") : f_text[i].value = <<"">>
    /\ Len(f_text) = 6

\* C15: the text of a dict that _parse_tender_row made shows the id, the
\* title, the organization and the announcement date the parser put in the
\* dict; none of the four is shown as the placeholder.
C15_ParsedFieldsRendered ==
    (Formatted /\ f_row # <<>>) =>
        \A key \in {"id", "title", "organization", "announcement_date"} :
            /\ LinesOf(LabelOf(key)) # {}
            /\ \A i \in LinesOf(LabelOf(key)) :
                  f_text[i].value = <<f_tender[key]>>

\* The rows of the table that have at least nine cells and digits in the
\* first cell and whose extraction does not raise.
Qualifies(row) ==
    /\ row.ncells >= MinCells
    /\ row.item \in DigitTexts
    /\ ~row.raises
Kept == {i \in 1..Len(p_rows) : Qualifies(p_rows[i])}
\* the place in the output of the record of kept row i
Place(i) == Cardinality({j \in Kept : j <= i})

\* C16: the loop over a results table yields exactly one record for each
\* row that has at least nine cells, digits in its first cell and an
\* extraction that does not raise, in row order; every other row is passed
\* over, and the rows after it are still parsed.
C16_OneRecordPerQualifyingRow ==
    p_done =>
        /\ Len(p_out) = Cardinality(Kept)
        /\ \A i \in Kept :
              /\ p_out[Place(i)].organization = p_rows[i].organization
              /\ p_out[Place(i)].announcement_date
                     = p_rows[i].announcement_date
              /\ p_rows[i].tender_text # <<>> =>
                     p_out[Place(i)].id = p_rows[i].tender_text[1]
              /\ Len(p_rows[i].tender_text) > 1 =>
                     p_out[Place(i)].title = p_rows[i].tender_text[2]
        /\ {p_out[k].id : k \in 1..Len(p_out)}
              \subseteq DOMAIN p_acc.history

\* A row whose extraction raises, followed by a data row that is parsed.
C16_Witness ==
    /\ p_done
    /\ Len(p_rows) = 2
    /\ p_rows[1] = RaisingRow
    /\ p_rows[2].tender_text = <<"A002", "T1">>
    /\ Qualifies(p_rows[2])
    /\ Len(p_out) = 1
    /\ p_out[1].id = "A002"

\* Something failed in the last job: the fetch, the load of a damaged file
\* before it, the extraction of a row, or a send.
SendFailed == \E i \in 1..Len(calls) : calls[i].result # "True"
SendRaised == \E i \in 1..Len(calls) : calls[i].result = "raise"
StageFailed ==
    \/ ~FetchOk
    \/ file_before.kind = "corrupt"
    \/ Len(data_rows(response)) < Len(response.rows)
    \/ SendFailed

C18_OneJobAtATime ==
    /\ s_active <= 1
    /\ s_active = 1 <=> s_pc \in {"initial_job", "scheduled_job"}
    /\ s_pc \in {"main", "loop", "sleep"} => s_active = 0

\* A second scheduled job, started after its due time because the job
\* before it was slow, is running alone.
C18_Witness ==
    /\ s_pc = "scheduled_job"
    /\ s_active = 1
    /\ s_next_run > Day
    /\ s_time >= s_next_run + 1

C20_IdsNonEmpty ==
    p_done =>
        /\ \A i \in 1..Len(p_out) : p_out[i].id # ""
        /\ \A i \in 1..Len(p_acc.new) : p_acc.new[i].id # ""
        /\ "" \notin DOMAIN p_acc.history

\* An href that names its own scheme and host.
IsAbsolute(href) == href # <<>> /\ href[1] = "https://other.example"
BaseUrl == "https://web.pcc.gov.tw"

\* C21: the link of a parsed record is empty when the row has no href; an
\* href that is an absolute URL is the link, unchanged; a relative href is
\* the link once qualified against the site's base URL.
C21_AbsoluteLinkKept ==
    p_done =>
        \A i \in Kept :
            /\ p_rows[i].href = <<>> => p_out[Place(i)].link = <<>>
            /\ IsAbsolute(p_rows[i].href) =>
                  p_out[Place(i)].link = p_rows[i].href
            /\ (p_rows[i].href # <<>> /\ ~IsAbsolute(p_rows[i].href)) =>
                  p_out[Place(i)].link
                     \in {<<BaseUrl>> \o p_rows[i].href,
                          <<BaseUrl, "/">> \o p_rows[i].href}

====
